---- MODULE Spec2Model ----
(***************************************************************************)
(* SudeepSearchCrew (src/crew/sudeep_crew.py): the search pipeline         *)
(*   _text_extract_json -> fetch_results -> translate_results,             *)
(*   generate_comment, kickoff                                             *)
(* and the string cleaner _clean_result_string.                            *)
(*                                                                         *)
(* A Python str is a sequence of characters.  A character is a one-letter  *)
(* TLA+ string; a longer TLA+ string inside a sequence stands for a run of *)
(* characters that holds no newline, whose first and last characters are   *)
(* no digit, '.', ' ' or '#', and which does not begin with "Ay".  The code*)
(* looks at a string only from its two ends (strip, the leading pattern of *)
(* the cleaner, startswith "Ayyo") and at its newlines (split), so such a  *)
(* run behaves as its characters would.                                    *)
(***************************************************************************)
EXTENDS Integers, Sequences, FiniteSets, TLC

VARIABLES
    groq_api_key,   \* self.groq_api_key is set and non-empty (__init__)
    op,             \* the method that returned last, "none" before any call
    query,          \* the query argument
    specific,       \* what the structured lookup hands to fetch_results
    ddgs,           \* how the search provider answers ddgs.text
    llm_replies,    \* how litellm.completion answers the calls made, in order
    lines,          \* the results argument of translate_results
    text,           \* the argument of _clean_result_string
    ret,            \* the list a method returned (results)
    ret_str,        \* the string a method returned (comment, cleaned string)
    raised,         \* an exception left the method
    calls           \* the calls the method made, in order

vars == <<groq_api_key, op, query, specific, ddgs, llm_replies, lines,
          text,
          ret, ret_str, raised, calls>>

\* ------------------------------------------------------------------ bounds
MaxLen == 4      \* longest argument of _clean_result_string drawn
MaxItems == 2    \* most items the provider or the structured lookup returns
MaxText == 2     \* longest completion text drawn for a kickoff
MaxReply == 3    \* longest completion text drawn for translate_results alone
MaxLines == 2    \* most lines handed to translate_results alone

\* ----------------------------------------------------------------- strings
Digits == {"0", "1", "2", "3", "4", "5", "6", "7", "8", "9"}
Whitespace == {" ", "\n"}
NL == "\n"

RECURSIVE SeqsUpTo(_, _)
SeqsUpTo(S, n) ==
    IF n = 0 THEN {<<>>}
    ELSE LET shorter == SeqsUpTo(S, n - 1)
         IN  shorter \cup {Append(s, c) : s \in shorter, c \in S}

StartsWith(s, p) == Len(s) >= Len(p) /\ SubSeq(s, 1, Len(p)) = p

RECURSIVE DropWhile(_, _)
DropWhile(s, C) ==
    IF s # <<>> /\ Head(s) \in C THEN DropWhile(Tail(s), C) ELSE s

RECURSIVE DropWhileEnd(_, _)
DropWhileEnd(s, C) ==
    IF s # <<>> /\ s[Len(s)] \in C
    THEN DropWhileEnd(SubSeq(s, 1, Len(s) - 1), C)
    ELSE s

\* str.strip(): whitespace off both ends
Strip(s) == DropWhileEnd(DropWhile(s, Whitespace), Whitespace)

DropOne(s, c) == IF s # <<>> /\ Head(s) = c THEN Tail(s) ELSE s

\* re.sub(r'^\d*\.?[ #]*', '', s): every part of the pattern is optional and
\* greedy, and ^ matches at the start only, so the one match is the leading
\* digits, then one period if there, then the run of spaces and #
ReSubLeading(s) ==
    DropWhile(DropOne(DropWhile(s, Digits), "."), {" ", "#"})

\* faulty variant: the cleaner with the period required to follow a digit
CleanDotAfterDigit(result_string) ==
    LET s == Strip(result_string)
        d == DropWhile(s, Digits)
    IN  DropWhile(IF d # s THEN DropOne(d, ".") ELSE d, {" ", "#"})

_clean_result_string(result_string) ==
    IF result_string = <<>> THEN <<>>
    ELSE ReSubLeading(Strip(result_string))

\* ------------------------------------------------------------ literals
Ayyo == <<"A", "y", "y", "o">>     \* the prefix tested at lines 159 and 259
Sep == <<" ", "-", " ">>           \* f"{url} - {body}"
ResultCap == 10                    \* final_results[:10]
MaxResults == 10                   \* ddgs.text(query, max_results=10)
TranslateTokens == 500
CommentTokens == 100

FOOD == <<"f", "o", "o", "d">>
CPU == <<"c", "p", "u">>

LowerChar(c) ==
    CASE c = "F" -> "f" [] c = "O" -> "o" [] c = "D" -> "d"
      [] c = "C" -> "c" [] c = "P" -> "p" [] c = "U" -> "u"
      [] OTHER -> c

\* str.lower()
Lower(s) == [i \in 1..Len(s) |-> LowerChar(s[i])]

NoSpecificResults(q) ==
    <<"No specific results found for '">> \o q
        \o <<"', da! (Empty list from source after cleaning)">>
NoValidResults(q) ==
    <<"No valid results found from DDGS for '">> \o q
        \o <<"', da! (All results were empty after cleaning)">>
\* faulty variant: the zero-items message carries the marker of the failure message
NoResultsWithMarker(q) ==
    Ayyo \o <<", no results found from DDGS for '">> \o q \o <<"', da!">>

NoResults(q) == <<"No results found from DDGS for '">> \o q \o <<"', da!">>
SearchFailed(q) ==
    Ayyo \o <<", DDGS search failed for '">> \o q
        \o <<"', da! The search engine is taking a chai break, macha!">>
KickoffFailed(q) ==
    Ayyo \o <<", something went wrong fetching/translating results for '">> \o q
        \o <<"', da! Server's confused!">>

CommentNoKey == Ayyo \o <<", comment generation failed, macha! Need that API key!">>
CommentNap == Ayyo \o <<", my comment generator took a nap in this garam weather!">>
CommentFailed == Ayyo \o <<", comment generation failed in this garam heat, da!">>
CommentKickoff == Ayyo \o <<", couldn't even generate a comment, da! System totally garam!">>

DefaultDescription == <<"No description available, da!">>
DefaultSnippet == <<"No snippet available, da!">>

\* ----------------------------------------------------- values and calls
\* what a method hands back: its value, or an exception, and the calls made
Return(v, cs) == [exc |-> FALSE, val |-> v, calls |-> cs]
Raise(cs) == [exc |-> TRUE, val |-> <<>>, calls |-> cs]

Call(f, a, k) == [fn |-> f, arg |-> a, n |-> k]

\* a {href, body} dict; either key may be absent
Item(hasHref, href, hasBody, body) ==
    [hasHref |-> hasHref, href |-> href, hasBody |-> hasBody, body |-> body]

\* item.get('href', '#') and item.get('body', default)
Url(item) == IF item.hasHref THEN item.href ELSE <<"#">>
Body(item, default) == IF item.hasBody THEN item.body ELSE default

\* the value of specific_data: None, or a dict with a 'results' list
None == [none |-> TRUE, results |-> <<>>]
Data(items) == [none |-> FALSE, results |-> items]

FoodItems ==
    << Item(TRUE, <<"https://example.com/biryani">>, TRUE, <<"Best biryani in town, da!">>),
       Item(TRUE, <<"https://example.com/dosa">>, TRUE, <<"Authentic masala dosa, super macha!">>) >>

\* ------------------------------------------------------ structured lookup
\* the simulated data section, lines 39-55: it raises ValueError for 'cpu'
DataSection(q) ==
    IF Lower(q) = CPU THEN Raise(<<>>)
    ELSE IF Lower(q) = FOOD THEN Return(Data(FoodItems), <<>>)
    ELSE Return(None, <<>>)

\* faulty variant: the lookup compares the query without lowering it
LookupCaseSensitive(q) ==
    IF q = FOOD THEN Data(FoodItems) ELSE None

\* faulty variant: the lookup lets the simulated failure stand as its result
LookupFailureAsData(q) ==
    IF Lower(q) = CPU
    THEN Data(<<Item(FALSE, <<>>, TRUE, <<"subsection not found">>)>>)
    ELSE IF Lower(q) = FOOD THEN Data(FoodItems) ELSE None

\* the except clauses of lines 59-66 turn every exception into None
_text_extract_json(q) ==
    LET r == DataSection(q) IN IF r.exc THEN None ELSE r.val

\* ---------------------------------------------------------- fetch_results
Keep(r) == r # <<>> /\ r # <<"-">> /\ r # <<" ", "-", " ">>

\* faulty variant: the body is put before the url
FormatBodyFirst(items, default) ==
    LET parsed == [i \in 1..Len(items) |->
                      _clean_result_string(
                          Body(items[i], default) \o Sep \o Url(items[i]))]
    IN  SelectSeq(parsed, Keep)

\* lines 102-111 and 126-136: format, clean, filter
FormatItems(items, default) ==
    LET parsed == [i \in 1..Len(items) |->
                      _clean_result_string(
                          Url(items[i]) \o Sep \o Body(items[i], default))]
    IN  SelectSeq(parsed, Keep)

Capped(s) == SubSeq(s, 1, IF Len(s) < ResultCap THEN Len(s) ELSE ResultCap)

\* lines 120-149: the provider path
ProviderPath(q, provider) ==
    LET call == <<Call("ddgs.text", q, MaxResults)>>
        ddgs_results == IF provider.kind = "items" THEN provider.items ELSE <<>>
        final_results == FormatItems(ddgs_results, DefaultSnippet)
    IN  IF provider.kind = "raise" THEN Return(<<SearchFailed(q)>>, call)
        ELSE IF ddgs_results = <<>> THEN Return(<<NoResults(q)>>, call)
        ELSE IF final_results # <<>> THEN Return(Capped(final_results), call)
        ELSE Return(<<NoValidResults(q)>>, call)

\* faulty variant: the provider is asked whatever the structured lookup gave
FetchAlwaysProvider(specific_data, q, provider) == ProviderPath(q, provider)

\* faulty variant: the provider is asked when the structured lines all drop out
FetchFallsBackWhenEmpty(specific_data, q, provider) ==
    IF /\ ~specific_data.none
       /\ FormatItems(specific_data.results, DefaultDescription) # <<>>
    THEN Return(Capped(FormatItems(specific_data.results, DefaultDescription)), <<>>)
    ELSE ProviderPath(q, provider)

\* lines 99-149, given what the lookup returned
FetchFrom(specific_data, q, provider) ==
    IF ~specific_data.none /\ specific_data.results # <<>>
    THEN LET final_results == FormatItems(specific_data.results, DefaultDescription)
         IN  IF final_results # <<>>
             THEN Return(Capped(final_results), <<>>)
             ELSE Return(<<NoSpecificResults(q)>>, <<>>)
    ELSE ProviderPath(q, provider)

LookupCall(q) == Call("_text_extract_json", q, 0)

fetch_results(q, provider) ==
    LET r == FetchFrom(_text_extract_json(q), q, provider)
    IN  [r EXCEPT !.calls = <<LookupCall(q)>> \o @]

\* ------------------------------------------------------ translate_results
RECURSIVE Split(_, _)
\* str.split(c): the pieces between the occurrences of c, "" gives [""]
Split(s, c) ==
    IF \A i \in 1..Len(s) : s[i] # c THEN <<s>>
    ELSE LET i == CHOOSE k \in 1..Len(s) :
                      s[k] = c /\ \A j \in 1..(k - 1) : s[j] # c
         IN  <<SubSeq(s, 1, i - 1)>> \o Split(SubSeq(s, i + 1, Len(s)), c)

RECURSIVE Join(_, _)
\* c.join(list)
Join(list, c) ==
    IF list = <<>> THEN <<>>
    ELSE IF Len(list) = 1 THEN list[1]
    ELSE list[1] \o <<c>> \o Join(Tail(list), c)

\* the user message of line 174
TranslateMessage(results, q) ==
    <<"Query: '">> \o q \o <<"'. Results to translate:", NL>> \o Join(results, NL)

\* lines 180-192: split the completion's text, clean and filter its lines
TranslatedLines(content) ==
    LET translated_lines == Split(Strip(content), NL)
        NotBlank(line) == Strip(line) # <<>>
        kept == SelectSeq(translated_lines, NotBlank)
        cleaned == [i \in 1..Len(kept) |-> _clean_result_string(kept[i])]
    IN  SelectSeq(cleaned, Keep)

\* lines 164-199, the body of the try: response.choices[0] raises when the
\* response holds no choice
TranslateTry(results, q, llm) ==
    LET call == <<Call("litellm.completion", TranslateMessage(results, q), TranslateTokens)>>
    IN  IF llm.kind # "text" THEN Raise(call)
        ELSE LET final_translated_lines == TranslatedLines(llm.content)
             IN  IF final_translated_lines # <<>>
                 THEN Return(final_translated_lines, call)
                 ELSE Return(results, call)

\* faulty variant: only the first line is tested for the marker, as kickoff does
TranslateFirstLineOnly(results, q, key, llm) ==
    IF ~key THEN Return(results, <<>>)
    ELSE IF results = <<>> \/ StartsWith(results[1], Ayyo)
    THEN Return(results, <<>>)
    ELSE LET r == TranslateTry(results, q, llm)
         IN  IF r.exc THEN Return(results, r.calls) ELSE r

\* faulty variant: an empty translation is returned as it is
TranslateKeepsEmpty(results, q, key, llm) ==
    IF ~key THEN Return(results, <<>>)
    ELSE IF results = <<>> \/ \E i \in 1..Len(results) : StartsWith(results[i], Ayyo)
    THEN Return(results, <<>>)
    ELSE LET r == TranslateTry(results, q, llm)
         IN  IF r.exc THEN Return(results, r.calls)
             ELSE IF llm.kind = "text"
                  THEN Return(TranslatedLines(llm.content), r.calls)
                  ELSE r

translate_results(results, q, key, llm) ==
    IF ~key THEN Return(results, <<>>)
    ELSE IF results = <<>> \/ \E i \in 1..Len(results) : StartsWith(results[i], Ayyo)
    THEN Return(results, <<>>)
    ELSE LET r == TranslateTry(results, q, llm)
         IN  IF r.exc THEN Return(results, r.calls) ELSE r

\* ------------------------------------------------------- generate_comment
CommentMessage(q) == <<"Query: '">> \o q \o <<"'">>

\* lines 212-231, the body of the try
CommentTry(q, llm) ==
    LET call == <<Call("litellm.completion", CommentMessage(q), CommentTokens)>>
    IN  IF llm.kind # "text" THEN Raise(call)
        ELSE LET comment == Strip(llm.content)
             IN  Return(IF comment # <<>> THEN comment ELSE CommentNap, call)

\* faulty variant: the stripped comment is returned even when it is empty
CommentKeepsEmpty(q, key, llm) ==
    IF ~key THEN Return(CommentNoKey, <<>>)
    ELSE IF llm.kind # "text"
    THEN Return(CommentFailed, CommentTry(q, llm).calls)
    ELSE Return(Strip(llm.content), CommentTry(q, llm).calls)

generate_comment(q, key, llm) ==
    IF ~key THEN Return(CommentNoKey, <<>>)
    ELSE LET r == CommentTry(q, llm)
         IN  IF r.exc THEN Return(CommentFailed, r.calls) ELSE r

\* ---------------------------------------------------------------- kickoff
TranslateCall(raw, q) == Call("translate_results", q, Len(raw))

\* lines 253-265, the body of the second try
KickoffTry(q, key, provider, llm) ==
    LET f == fetch_results(q, provider)
        raw_results == f.val
    IN  IF f.exc THEN f
        ELSE IF raw_results # <<>> /\ StartsWith(raw_results[1], Ayyo)
        THEN Return(raw_results, f.calls)
        ELSE LET t == translate_results(raw_results, q, key, llm)
                 cs == f.calls \o <<TranslateCall(raw_results, q)>> \o t.calls
             IN  IF t.exc THEN Raise(cs) ELSE Return(t.val, cs)

\* the response of lines 272-279: val is <<results, comment>>
kickoff(q, key, provider, llm_c, llm_t) ==
    LET c == generate_comment(q, key, llm_c)
        comment == IF c.exc THEN CommentKickoff ELSE c.val
        r == KickoffTry(q, key, provider, llm_t)
        results == IF r.exc THEN <<KickoffFailed(q)>> ELSE r.val
    IN  [exc |-> FALSE, results |-> results, comment |-> comment,
         calls |-> c.calls \o r.calls]

\* ----------------------------------------------------------------- inputs
GARAM == <<"garam", " ", "masala">>
Queries == {FOOD, <<"F", "o", "O", "D">>, CPU, <<"C", "p", "U">>, GARAM}

\* items the search provider may return
Plain == Item(TRUE, <<"https://x">>, TRUE, <<"y">>)
NoHref == Item(FALSE, <<>>, TRUE, <<"y">>)
Blank == Item(TRUE, <<>>, TRUE, <<>>)
NoHrefBlank == Item(FALSE, <<>>, TRUE, <<>>)
NumericUrl == Item(TRUE, <<"1", ".", "1", "/x">>, TRUE, <<"y">>)
NoBody == Item(TRUE, <<"https://x">>, FALSE, <<>>)
AyyoBody == Item(TRUE, <<"https://x">>, TRUE, Ayyo \o <<", traffic">>)
AyyoUrl == Item(TRUE, Ayyo \o <<".example/x">>, TRUE, <<"y">>)

Answers(items, n) ==
    {[kind |-> "raise", items |-> <<>>], [kind |-> "none", items |-> <<>>]}
        \cup {[kind |-> "items", items |-> i] : i \in SeqsUpTo(items, n)}

\* answers of the completion backend: it raises, it returns a response
\* without a choice, or it returns a text
Replies(chars, n) ==
    {[kind |-> "raise", content |-> <<>>], [kind |-> "nochoice", content |-> <<>>]}
        \cup {[kind |-> "text", content |-> c] : c \in SeqsUpTo(chars, n)}

ReplyChars == {"t", NL, "1", " ", "-"}
KickoffChars == {"t", NL, "1", " "}
CommentReplies ==
    {[kind |-> "raise", content |-> <<>>],
     [kind |-> "text", content |-> <<" ">>], [kind |-> "text", content |-> <<"c", NL>>]}

CleanChars == {"1", "7", ".", " ", "#", "x"}
Examples ==
    { <<"1", ".", " ", "https://x", " ", "-", " ", "y">>,
      <<"2", ".", " ", "#", "https://x", " ", "-", " ", "y">>,
      <<"no-prefix", " ", "text">>,
      <<" ", " ", " ", " ", " ", " ">> }

LineSet ==
    { <<"https://x", " ", "-", " ", "y">>, <<"-", " ", "y">>,
      <<"No results found from DDGS">>, Ayyo \o <<", DDGS search failed">> }

NoAnswer == [kind |-> "none", items |-> <<>>]

\* ------------------------------------------------------------------ states
Idle ==
    /\ op = "none"
    /\ ret = <<>>
    /\ ret_str = <<>>
    /\ raised = FALSE
    /\ calls = <<>>

\* a crew, a query, and the backends' behaviour for one kickoff
Init ==
    /\ groq_api_key \in BOOLEAN
    /\ query \in Queries
    /\ ddgs \in Answers({Plain, NoHref, Blank, AyyoBody}, MaxItems)
    /\ llm_replies \in {<<c, t>> : c \in CommentReplies, t \in Replies(KickoffChars, MaxText)}
    /\ specific = None
    /\ lines = <<>>
    /\ text = <<>>
    /\ Idle

InitFetch ==
    /\ groq_api_key = FALSE
    /\ query \in Queries
    /\ ddgs \in Answers({Plain, NoHref, Blank, NumericUrl, NoBody, AyyoBody}, MaxItems)
    /\ specific \in {None} \cup {Data(i) : i \in SeqsUpTo({Plain, NoHref, Blank, NoHrefBlank}, MaxItems)}
    /\ llm_replies = <<>>
    /\ lines = <<>>
    /\ text = <<>>
    /\ Idle

InitTranslate ==
    /\ groq_api_key \in BOOLEAN
    /\ query \in {FOOD, GARAM}
    /\ lines \in SeqsUpTo(LineSet, MaxLines)
    /\ llm_replies \in {<<t>> : t \in Replies(ReplyChars, MaxReply)}
    /\ ddgs = NoAnswer
    /\ specific = None
    /\ text = <<>>
    /\ Idle

InitClean ==
    /\ text \in SeqsUpTo(CleanChars, MaxLen) \cup Examples
    /\ groq_api_key = FALSE
    /\ query = <<>>
    /\ ddgs = NoAnswer
    /\ specific = None
    /\ llm_replies = <<>>
    /\ lines = <<>>
    /\ Idle

\* ----------------------------------------------------------------- actions
Inputs == <<groq_api_key, query, specific, ddgs, llm_replies, lines, text>>

Kickoff ==
    LET r == kickoff(query, groq_api_key, ddgs, llm_replies[1], llm_replies[2])
    IN  /\ op' = "kickoff"
        /\ ret' = r.results
        /\ ret_str' = r.comment
        /\ raised' = r.exc
        /\ calls' = r.calls
        /\ UNCHANGED Inputs

FetchResults ==
    LET r == fetch_results(query, ddgs)
    IN  /\ op' = "fetch_results"
        /\ ret' = r.val
        /\ ret_str' = <<>>
        /\ raised' = r.exc
        /\ calls' = r.calls
        /\ UNCHANGED Inputs

\* fetch_results from line 99 on, with specific_data as the lookup gave it
FetchResultsFrom ==
    LET r == FetchFrom(specific, query, ddgs)
    IN  /\ op' = "fetch_from"
        /\ ret' = r.val
        /\ ret_str' = <<>>
        /\ raised' = r.exc
        /\ calls' = <<LookupCall(query)>> \o r.calls
        /\ UNCHANGED Inputs

TranslateResults ==
    LET r == translate_results(lines, query, groq_api_key, llm_replies[1])
    IN  /\ op' = "translate_results"
        /\ ret' = r.val
        /\ ret_str' = <<>>
        /\ raised' = r.exc
        /\ calls' = r.calls
        /\ UNCHANGED Inputs

GenerateComment ==
    LET r == generate_comment(query, groq_api_key, llm_replies[1])
    IN  /\ op' = "generate_comment"
        /\ ret' = <<>>
        /\ ret_str' = r.val
        /\ raised' = r.exc
        /\ calls' = r.calls
        /\ UNCHANGED Inputs

CleanResultString ==
    /\ op' = "_clean_result_string"
    /\ ret' = <<>>
    /\ ret_str' = _clean_result_string(text)
    /\ raised' = FALSE
    /\ calls' = <<>>
    /\ UNCHANGED Inputs

Next == Kickoff
NextFetch == FetchResults \/ FetchResultsFrom
NextTranslate == TranslateResults \/ GenerateComment
NextClean == CleanResultString

Spec == Init /\ [][Next]_vars
SpecFetch == InitFetch /\ [][NextFetch]_vars
SpecTranslate == InitTranslate /\ [][NextTranslate]_vars
SpecClean == InitClean /\ [][NextClean]_vars

\* ------------------------------------------------------------------ claims
Called(f) == \E i \in 1..Len(calls) : calls[i].fn = f

CallsTo(f) == {i \in 1..Len(calls) : calls[i].fn = f}

\* C1: whatever the query, the credential and the two backends do, kickoff
\* returns, without raising, a results list of at least one string and a
\* non-empty comment string.
C1_KickoffAlwaysAnswers ==
    op = "kickoff" =>
        /\ ~raised
        /\ Len(ret) >= 1
        /\ \A i \in 1..Len(ret) : ret[i] \in Seq(STRING)
        /\ ret_str \in Seq(STRING)
        /\ ret_str # <<>>

\* a kickoff with the credential set and both backends raising
C1_Witness ==
    /\ op = "kickoff"
    /\ groq_api_key
    /\ ddgs.kind = "raise"
    /\ llm_replies[1].kind = "raise"
    /\ ret = <<SearchFailed(query)>>
    /\ ret_str = CommentFailed

\* C3: for the query 'cpu' in any letter case, when the provider raises,
\* kickoff returns the one-element list holding the marker-prefixed
\* provider-failure string that mentions the query, and neither
\* translate_results nor the translation completion call is made.
C3_CpuProviderFailure ==
    (op = "kickoff" /\ Lower(query) = CPU /\ ddgs.kind = "raise") =>
        /\ Len(ret) = 1
        /\ StartsWith(ret[1], Ayyo \o <<", DDGS search failed for '">> \o query)
        /\ ~Called("translate_results")
        /\ \A i \in CallsTo("litellm.completion") : calls[i].n # TranslateTokens
        /\ CallsTo("ddgs.text") # {}

\* 'CpU' with the provider down, the credential set and a backend that would
\* have translated
C3_Witness ==
    /\ op = "kickoff"
    /\ query = <<"C", "p", "U">>
    /\ ddgs.kind = "raise"
    /\ groq_api_key
    /\ llm_replies[2] = [kind |-> "text", content |-> <<"t">>]
    /\ StartsWith(ret[1], Ayyo)

TranslationCalls ==
    {i \in CallsTo("litellm.completion") : calls[i].n = TranslateTokens}

\* an unrecognized query for which the provider succeeds with zero items
C2_Case ==
    /\ op = "kickoff"
    /\ Lower(query) \notin {FOOD, CPU}
    /\ \/ ddgs.kind = "none"
       \/ ddgs.kind = "items" /\ ddgs.items = <<>>

C7_Case ==
    /\ op = "kickoff"
    /\ Lower(query) = FOOD
    /\ groq_api_key
    /\ llm_replies[1].kind = "text"
    /\ llm_replies[2].kind = "text"

FetchOp == op \in {"fetch_results", "fetch_from"}

\* what the structured lookup handed to fetch_results
LookupValue == IF op = "fetch_from" THEN specific ELSE _text_extract_json(query)

\* the lines of the structured items that survive cleaning and filtering
StructuredLines == FormatItems(LookupValue.results, DefaultDescription)

ProviderCalls == CallsTo("ddgs.text")

C9_Case ==
    /\ op = "fetch_from"
    /\ ~specific.none
    /\ specific.results # <<>>
    /\ \A i \in 1..Len(specific.results) :
           ~Keep(_clean_result_string(Url(specific.results[i]) \o Sep
                    \o Body(specific.results[i], DefaultDescription)))

C10_LinesKeepTheirUrl ==
    op = "fetch_results" =>
        LET structured == ~LookupValue.none /\ LookupValue.results # <<>>
            items == IF structured THEN LookupValue.results ELSE ddgs.items
            default == IF structured THEN DefaultDescription ELSE DefaultSnippet
            message == \/ ret = <<NoSpecificResults(query)>>
                       \/ ret = <<NoValidResults(query)>>
                       \/ ret = <<NoResults(query)>>
                       \/ ret = <<SearchFailed(query)>>
        IN  ~message =>
                \A i \in 1..Len(ret) :
                    \E j \in 1..Len(items) :
                        ret[i] = Strip(Url(items[j]) \o Sep \o Body(items[j], default))

\* C5: translate_results makes no completion call and returns its lines
\* unchanged when the credential is absent or a line, at any position,
\* begins with the marker; no text it sends to the backend holds a line that
\* begins with the marker.
C5_SentinelNeverTranslated ==
    op = "translate_results" =>
        /\ (~groq_api_key \/ \E i \in 1..Len(lines) : StartsWith(lines[i], Ayyo)) =>
               (calls = <<>> /\ ret = lines /\ ~raised)
        /\ \A i \in CallsTo("litellm.completion") :
               LET sent == Split(calls[i].arg, NL)
               IN  \A k \in 2..Len(sent) : ~StartsWith(sent[k], Ayyo)

\* the credential set, a backend ready to translate, and the marker on the
\* second line only
C5_Witness ==
    /\ op = "translate_results"
    /\ groq_api_key
    /\ Len(lines) = 2
    /\ ~StartsWith(lines[1], Ayyo)
    /\ StartsWith(lines[2], Ayyo)
    /\ llm_replies[1] = [kind |-> "text", content |-> <<"t">>]
    /\ ret = lines

\* the completion raised, or its response held no choice
BackendFailed == llm_replies[1].kind \in {"raise", "nochoice"}

\* no line of the completion's text survives cleaning and filtering
EmptyReply ==
    /\ llm_replies[1].kind = "text"
    /\ LET parts == Split(llm_replies[1].content, NL)
       IN  \A k \in 1..Len(parts) :
               \/ Strip(parts[k]) = <<>>
               \/ ~Keep(_clean_result_string(Strip(parts[k])))

\* C6: when the completion backend raises or returns no choice,
\* translate_results returns its lines unchanged and generate_comment one of
\* its fixed, non-empty fallback strings, and neither raises; a translation
\* that is empty after splitting, cleaning and filtering also gives the
\* lines back unchanged.
C6_BackendFailureKeepsLines ==
    /\ (op = "translate_results" /\ BackendFailed) => (ret = lines /\ ~raised)
    /\ (op = "generate_comment" /\ BackendFailed) =>
           /\ ~raised
           /\ ret_str # <<>>
           /\ ret_str = IF groq_api_key
                        THEN Ayyo \o <<", comment generation failed in this garam heat, da!">>
                        ELSE Ayyo \o <<", comment generation failed, macha! Need that API key!">>
    /\ (op = "translate_results" /\ EmptyReply) => (ret = lines /\ ~raised)

\* two plain lines were sent to a backend whose response held no choice
C6_Witness ==
    /\ op = "translate_results"
    /\ groq_api_key
    /\ llm_replies[1].kind = "nochoice"
    /\ Len(lines) = 2
    /\ Len(calls) = 1
    /\ ret = lines

\* ------------------------------------------------- _clean_result_string
\* p is optional digits, an optional period, then spaces and # characters
IsLeadingRun(p) ==
    \E a \in 0..Len(p) : \E b \in {a, a + 1} :
        /\ b <= Len(p)
        /\ \A k \in 1..a : p[k] \in Digits
        /\ b = a + 1 => p[b] = "."
        /\ \A k \in (b + 1)..Len(p) : p[k] \in {" ", "#"}

\* r is s without its longest prefix that is a leading run
WithoutLeadingRun(s, r) ==
    \E k \in 0..Len(s) :
        /\ IsLeadingRun(SubSeq(s, 1, k))
        /\ \A m \in (k + 1)..Len(s) : ~IsLeadingRun(SubSeq(s, 1, m))
        /\ r = SubSeq(s, k + 1, Len(s))

\* t is s without the whitespace at its two ends
IsStripped(s, t) ==
    \E i \in 1..(Len(s) + 1) : \E j \in (i - 1)..Len(s) :
        /\ t = SubSeq(s, i, j)
        /\ \A k \in 1..(i - 1) : s[k] \in Whitespace
        /\ \A k \in (j + 1)..Len(s) : s[k] \in Whitespace
        /\ t # <<>> => (t[1] \notin Whitespace /\ t[Len(t)] \notin Whitespace)

\* C8 as stated: the cleaner returns its argument with only the leading run
\* removed from its start and everything after the run left as it is.
C8_Original ==
    op = "_clean_result_string" => WithoutLeadingRun(text, ret_str)

\* C8, amended: the cleaner first strips the whitespace from both ends of its
\* argument, and returns the stripped string with only the leading run
\* removed from its start and everything after the run left as it is: ""
\* for an empty or whitespace-only argument, never an exception, and the
\* documented examples come out as documented.
C8_CleanStripsThenRemovesRun ==
    op = "_clean_result_string" =>
        /\ ~raised
        /\ \E i \in 1..(Len(text) + 1) : \E j \in (i - 1)..Len(text) :
               /\ IsStripped(text, SubSeq(text, i, j))
               /\ WithoutLeadingRun(SubSeq(text, i, j), ret_str)
        /\ (\A k \in 1..Len(text) : text[k] \in Whitespace) => ret_str = <<>>
        /\ text = <<"1", ".", " ", "https://x", " ", "-", " ", "y">>
               => ret_str = <<"https://x", " ", "-", " ", "y">>
        /\ text = <<"2", ".", " ", "#", "https://x", " ", "-", " ", "y">>
               => ret_str = <<"https://x", " ", "-", " ", "y">>
        /\ text = <<"no-prefix", " ", "text">> => ret_str = text

\* a numbered line that also ends in a space: the number and the trailing
\* space are both gone
C8_Witness ==
    /\ op = "_clean_result_string"
    /\ text = <<"1", ".", "x", " ">>
    /\ ret_str = <<"x">>

\* ------------------------------------------- the marker in a search result
\* a crew, a query the structured lookup misses, and a provider whose items
\* may hold the marker in the body or in the url, for one kickoff
InitMarker ==
    /\ groq_api_key \in BOOLEAN
    /\ query \in {GARAM, CPU, <<"F", "o", "O", "D">>}
    /\ ddgs \in Answers({Plain, AyyoBody, AyyoUrl}, MaxItems)
    /\ llm_replies \in {<<c, t>> : c \in CommentReplies, t \in Replies(KickoffChars, MaxText)}
    /\ specific = None
    /\ lines = <<>>
    /\ text = <<>>
    /\ Idle

SpecMarker == InitMarker /\ [][Next]_vars

\* the provider succeeded and an item's body begins with the marker
C11_Case ==
    /\ op = "kickoff"
    /\ Lower(query) # FOOD
    /\ ddgs.kind = "items"
    /\ \E i \in 1..Len(ddgs.items) :
           ddgs.items[i].hasBody /\ StartsWith(ddgs.items[i].body, Ayyo)

\* the lines fetch_results handed to kickoff
RawResults == fetch_results(query, ddgs).val

MarkedLines == {k \in 1..Len(RawResults) : StartsWith(RawResults[k], Ayyo)}

\* C11 as stated: when the provider returns an item whose body begins with
\* 'Ayyo', a line fetch_results returns begins with the marker and the
\* translation of the whole list is skipped.
C11_Original ==
    C11_Case => (MarkedLines # {} /\ TranslationCalls = {})

\* C11, amended: a body that begins with 'Ayyo' does not put the marker at
\* the start of its line, which begins with the item's url (or with '-' when
\* the url is absent or empty); a returned line begins with the marker only
\* when the url of its item does.  With no such line the list goes to
\* translate_results and, the credential set, to the completion backend, the
\* line with the marked body included; with such a line translation is
\* skipped for the whole list, by kickoff when it is the first line and by
\* translate_results at any other position.
C11_MarkerInBodyIsNoError ==
    C11_Case =>
        /\ \A k \in MarkedLines :
               \E i \in 1..Len(ddgs.items) :
                   /\ ddgs.items[i].hasHref
                   /\ StartsWith(ReSubLeading(Strip(ddgs.items[i].href)), Ayyo)
                   /\ StartsWith(RawResults[k], ReSubLeading(Strip(ddgs.items[i].href)))
        /\ MarkedLines = {} =>
               /\ Called("translate_results")
               /\ groq_api_key <=> TranslationCalls # {}
               /\ \A c \in TranslationCalls :
                      \E k \in 1..Len(calls[c].arg) :
                          StartsWith(SubSeq(calls[c].arg, k, Len(calls[c].arg)),
                                     Sep \o Ayyo)
        /\ MarkedLines # {} =>
               /\ TranslationCalls = {}
               /\ ret = RawResults
               /\ Called("translate_results") <=> 1 \notin MarkedLines

\* one result whose body begins with 'Ayyo', the credential set, and a
\* backend that answers "t": the line was translated
C11_Witness ==
    /\ C11_Case
    /\ ddgs.items = <<AyyoBody>>
    /\ groq_api_key
    /\ llm_replies[2] = [kind |-> "text", content |-> <<"t">>]
    /\ TranslationCalls # {}
    /\ ret = << <<"t">> >>

====
